---- MODULE Spec2Model ----
(***************************************************************************)
(* Food-Share backend: the donation lifecycle (Backend/models/Donation.js  *)
(* and the donations router).  One donation document slot is modelled; a   *)
(* handler is one atomic action in Spec and a read step followed by a      *)
(* write step in SpecConc.  The list queries run in SpecList on a          *)
(* collection of stored donations.                                         *)
(***************************************************************************)
EXTENDS Integers, FiniteSets, Sequences, TLC

VARIABLES
  db,    \* the stored donation document (NoDoc when there is none)
  now,   \* the clock read by new Date()
  last,  \* the last request handled and the answer it got
  pre,   \* a fresh donation as it was before the reservation that followed its creation
  reqs,  \* requests in flight, between their read and their write
  ver,   \* number of writes the stored document has taken
  coll,  \* the donations collection the list queries run on
  shown, \* the last list query and the donations it returned
  store  \* what the router a specification is about keeps, besides donations

vars == <<db, now, last, pre, reqs, ver, coll, shown, store>>

\* store by the name of what it holds in the specification of each router
food == store      \* the stored food listing
vol == store       \* the stored volunteer profile
accounts == store  \* the stored users
contact == store   \* the stored contact message
routed == store    \* the last request the server dispatched and the handler it reached

\* what the donation handlers leave alone
rest == <<store>>

----------------------------------------------------------------------------
(* Bounds *)

MaxTime == 1
MaxDate == 3
MaxViews == 1
NumReq == 2
NumDocs == 2
MaxFoods == 2
MaxReviews == 2
MaxNotes == 1
MaxSegments == 2

----------------------------------------------------------------------------
(* Values *)

NULL == "null"
NoDate == -1
NoPlace == -1
NoRadius == -1
NoPage == -1
NoLimit == -1

\* one time unit of the model is 12 hours, so a day is two units
DayUnits == 2

Dates == 0..MaxDate

Users == {"d1", "d2", "v1", "v2", "c1"}

Role(u) ==
  CASE u \in {"d1", "d2"} -> "donor"
    [] u \in {"v1", "v2"} -> "volunteer"
    [] u \in {"r1", "r2"} -> "receiver"
    [] u = "a1" -> "admin"
    [] OTHER -> "charity"

StatusEnum == {"available", "reserved", "picked-up", "expired", "cancelled"}

CategoryEnum ==
  {"fruits", "vegetables", "grains", "dairy", "meat", "canned", "baked",
   "frozen", "beverages", "snacks", "other"}

NoReservation ==
  [volunteer |-> NULL, charity |-> NULL, reservedAt |-> NoDate, pickupNotes |-> NULL]

NoDoc ==
  [exists |-> FALSE, donor |-> NULL, status |-> NULL,
   reservedBy |-> NoReservation, expiryDate |-> NoDate,
   isUrgent |-> FALSE, views |-> 0, category |-> NULL, location |-> NoPlace]

Res(c, e) == [code |-> c, error |-> e]

OK == Res(200, "")

----------------------------------------------------------------------------
(* Donation.js: virtuals, hooks and methods *)

\* Math.ceil(x / d) for d > 0 (\div rounds down)
Ceil(x, d) == -((-x) \div d)

daysUntilExpiry(doc, t) == Ceil(doc.expiryDate - t, DayUnits)

preSave(doc, t) ==
  IF daysUntilExpiry(doc, t) <= 1 THEN [doc EXCEPT !.isUrgent = TRUE] ELSE doc

incrementViews(doc, t) == preSave([doc EXCEPT !.views = @ + 1], t)

reserve(doc, userId, userType, notes, t) ==
  preSave([doc EXCEPT
             !.status = "reserved",
             !.reservedBy = [volunteer |-> IF userType = "volunteer" THEN userId ELSE NULL,
                             charity |-> IF userType = "charity" THEN userId ELSE NULL,
                             reservedAt |-> t,
                             pickupNotes |-> IF notes = NULL THEN "" ELSE notes]], t)

\* cancelReservation that forgets to clear reservedBy
cancelReservation_keepsReservedBy(doc, t) ==
  preSave([doc EXCEPT !.status = "available"], t)

cancelReservation(doc, t) ==
  preSave([doc EXCEPT !.status = "available", !.reservedBy = NoReservation], t)

markPickedUp(doc, t) == preSave([doc EXCEPT !.status = "picked-up"], t)

----------------------------------------------------------------------------
(* middleware/auth *)

authorize(u, roles) == Role(u) \in roles

\* req.user.role === 'volunteer' ? 'volunteer' : 'charity'
UserType(u) == IF Role(u) = "volunteer" THEN "volunteer" ELSE "charity"

----------------------------------------------------------------------------
(* Mongoose persistence *)

\* a save that writes the whole in-memory document back
save_wholeDocument(cur, read, new) == new

\* doc.save(): the paths the handler modified are $set on the stored document
save(cur, read, new) ==
  [f \in DOMAIN cur |-> IF new[f] # read[f] THEN new[f] ELSE cur[f]]

\* the update document of findByIdAndUpdate is $set on the stored document
applyUpdate(cur, patch) ==
  [f \in DOMAIN cur |-> IF f \in DOMAIN patch THEN patch[f] ELSE cur[f]]

\* schema validators that run on create and (runValidators) on update
validates(doc) ==
  /\ doc.donor # NULL
  /\ doc.status \in StatusEnum

----------------------------------------------------------------------------
(* Request inputs *)

\* a reserve request may omit pickupNotes
NotesInput == {NULL}

StatusInput == StatusEnum \cup {"bogus"}

\* reservedBy objects a request body can carry
BodyReservation ==
  [volunteer |-> "v1", charity |-> NULL, reservedAt |-> NoDate, pickupNotes |-> NULL]

----------------------------------------------------------------------------
(* Donations router: what each handler answers for the document it read *)

\* GET /:id
getResult(doc) ==
  IF ~doc.exists THEN Res(404, "Donation not found") ELSE OK

\* POST / that accepts an expiry date equal to the pickup date
createResult_expiryAtPickup(body, t) ==
  IF body.category \notin CategoryEnum THEN Res(400, "Validation failed")
  ELSE IF body.pickupDate < t THEN Res(400, "Invalid pickup date")
  ELSE IF body.expiryDate < body.pickupDate THEN Res(400, "Invalid expiry date")
  ELSE IF ~validates(body) THEN Res(500, "Failed to create donation")
  ELSE Res(201, "")

\* POST / (the express-validator chain checks category; status is checked by
\* the schema inside Donation.create, whose error the catch answers with 500)
createResult(body, t) ==
  IF body.category \notin CategoryEnum THEN Res(400, "Validation failed")
  ELSE IF body.pickupDate < t THEN Res(400, "Invalid pickup date")
  ELSE IF body.expiryDate <= body.pickupDate THEN Res(400, "Invalid expiry date")
  ELSE IF ~validates(body) THEN Res(500, "Failed to create donation")
  ELSE Res(201, "")

\* update that locks picked-up donations only
updateResult_noExpiredLock(doc, u, patch) ==
  IF ~authorize(u, {"donor"}) THEN Res(403, "Not authorized")
  ELSE IF ~doc.exists THEN Res(404, "Donation not found")
  ELSE IF doc.donor # u THEN Res(403, "Access denied")
  ELSE IF doc.status = "picked-up" THEN Res(400, "Cannot update donation")
  ELSE IF ~validates(applyUpdate(doc, patch)) THEN Res(500, "Failed to update donation")
  ELSE OK

\* PUT /:id
updateResult(doc, u, patch) ==
  IF ~authorize(u, {"donor"}) THEN Res(403, "Not authorized")
  ELSE IF ~doc.exists THEN Res(404, "Donation not found")
  ELSE IF doc.donor # u THEN Res(403, "Access denied")
  ELSE IF doc.status = "picked-up" \/ doc.status = "expired"
    THEN Res(400, "Cannot update donation")
  ELSE IF ~validates(applyUpdate(doc, patch)) THEN Res(500, "Failed to update donation")
  ELSE OK

\* reserve without the comparison of expiryDate with the clock
reserveResult_noExpiry(doc, u, t) ==
  IF ~authorize(u, {"volunteer", "charity"}) THEN Res(403, "Not authorized")
  ELSE IF ~doc.exists THEN Res(404, "Donation not found")
  ELSE IF doc.status # "available" THEN Res(400, "Donation not available")
  ELSE OK

\* POST /:id/reserve
reserveResult(doc, u, t) ==
  IF ~authorize(u, {"volunteer", "charity"}) THEN Res(403, "Not authorized")
  ELSE IF ~doc.exists THEN Res(404, "Donation not found")
  ELSE IF doc.status # "available" THEN Res(400, "Donation not available")
  ELSE IF doc.expiryDate <= t THEN Res(400, "Donation expired")
  ELSE OK

\* cancel-reservation that only asks whether anyone holds a reservation
cancelResult_anyReservation(doc, u) ==
  IF ~doc.exists THEN Res(404, "Donation not found")
  ELSE IF doc.reservedBy = NoReservation THEN Res(403, "Access denied")
  ELSE OK

\* POST /:id/cancel-reservation (reservedBy is a nested path, never falsy;
\* an unset reservedBy[userType] differs from every user id)
cancelResult(doc, u) ==
  IF ~doc.exists THEN Res(404, "Donation not found")
  ELSE IF doc.reservedBy[UserType(u)] # u THEN Res(403, "Access denied")
  ELSE OK

\* pickup without the check that the donation is reserved
pickupResult_noStatus(doc, u) ==
  IF ~doc.exists THEN Res(404, "Donation not found")
  ELSE IF doc.reservedBy[UserType(u)] # u THEN Res(403, "Access denied")
  ELSE OK

\* POST /:id/pickup
pickupResult(doc, u) ==
  IF ~doc.exists THEN Res(404, "Donation not found")
  ELSE IF doc.reservedBy[UserType(u)] # u THEN Res(403, "Access denied")
  ELSE IF doc.status # "reserved" THEN Res(400, "Invalid status")
  ELSE OK

\* delete without the check of the donation's status
deleteResult_noStatus(doc, u) ==
  IF ~authorize(u, {"donor"}) THEN Res(403, "Not authorized")
  ELSE IF ~doc.exists THEN Res(404, "Donation not found")
  ELSE IF doc.donor # u THEN Res(403, "Access denied")
  ELSE OK

\* DELETE /:id
deleteResult(doc, u) ==
  IF ~authorize(u, {"donor"}) THEN Res(403, "Not authorized")
  ELSE IF ~doc.exists THEN Res(404, "Donation not found")
  ELSE IF doc.donor # u THEN Res(403, "Access denied")
  ELSE IF doc.status = "reserved" \/ doc.status = "picked-up"
    THEN Res(400, "Cannot delete donation")
  ELSE OK

----------------------------------------------------------------------------
(* The handlers, each run to completion *)

\* the body of a request that carries none
NoBody ==
  [donor |-> NULL, status |-> NULL, reservedBy |-> NoReservation,
   category |-> NULL, location |-> NoPlace,
   expiryDate |-> NoDate, pickupDate |-> NoDate]

\* the request, the answer, and the clock and document the handler found
Answer(op, u, r) ==
  [op |-> op, actor |-> u, code |-> r.code, error |-> r.error, at |-> now,
   before |-> db, body |-> NoBody, retry |-> FALSE]

\* the request repeats the one answered last, which had succeeded
Retried(op, u, b) ==
  last.op = op /\ last.actor = u /\ last.body = b /\ last.code = 200

newDonation(body, t) ==
  preSave([exists |-> TRUE, donor |-> body.donor, status |-> body.status, reservedBy |-> body.reservedBy,
           expiryDate |-> body.expiryDate,
           isUrgent |-> FALSE, views |-> 0,
           category |-> body.category, location |-> body.location], t)

\* bodies a donor's form sends, as the schema defaults complete them
FormBodies ==
  [donor : {"d1"}, status : {"available"}, reservedBy : {NoReservation},
   category : {"fruits"}, location : {0},
   expiryDate : Dates, pickupDate : Dates]

\* the form's bodies and the same with one more field set by hand
CreateBodies ==
  FormBodies
    \cup {[b EXCEPT !.donor = NULL] : b \in FormBodies}
    \cup {[b EXCEPT !.status = "reserved"] : b \in FormBodies}
    \cup {[b EXCEPT !.status = "bogus"] : b \in FormBodies}
    \cup {[b EXCEPT !.reservedBy = BodyReservation] : b \in FormBodies}
    \cup {[b EXCEPT !.status = "reserved", !.reservedBy = BodyReservation] : b \in FormBodies}
    \cup {[b EXCEPT !.category = "bogus"] : b \in FormBodies}

\* who sends POST /: nobody the server knows (no token), a donor, a volunteer
CreateCallers == {NULL, "d1", "v1"}

Create(u, body) ==
  LET r == createResult(body, now) IN
  /\ ~db.exists
  /\ db' = IF r.code = 201 THEN newDonation(body, now) ELSE db
  /\ last' = [Answer("create", u, r) EXCEPT !.body = body]
  /\ pre' = NoDoc
  /\ UNCHANGED <<now, reqs, ver, coll, shown>>
  /\ UNCHANGED rest

Get ==
  LET r == getResult(db) IN
  /\ db.views < MaxViews
  /\ db' = IF r.code = 200 THEN save(db, db, incrementViews(db, now)) ELSE db
  /\ last' = Answer("get", NULL, r)
  /\ pre' = NoDoc
  /\ UNCHANGED <<now, reqs, ver, coll, shown>>
  /\ UNCHANGED rest

\* authorize('donor') answers before the handler reads the body
UpdateDenied(u) ==
  /\ ~authorize(u, {"donor"})
  /\ last' = Answer("update", u, Res(403, "Not authorized"))
  /\ pre' = NoDoc
  /\ UNCHANGED <<db, now, reqs, ver, coll, shown>>
  /\ UNCHANGED rest

Update(u, patch) ==
  LET r == updateResult(db, u, patch) IN
  /\ authorize(u, {"donor"})
  /\ db' = IF r.code = 200 THEN applyUpdate(db, patch) ELSE db
  /\ last' = [Answer("update", u, r) EXCEPT
                !.body = IF r.code = 200 THEN patch ELSE NoBody,
                !.retry = Retried("update", u, patch)]
  /\ pre' = NoDoc
  /\ UNCHANGED <<now, reqs, ver, coll, shown>>
  /\ UNCHANGED rest

\* authorize('volunteer', 'charity') answers before the handler reads the body
ReserveDenied(u) ==
  /\ ~authorize(u, {"volunteer", "charity"})
  /\ last' = Answer("reserve", u, Res(403, "Not authorized"))
  /\ pre' = NoDoc
  /\ UNCHANGED <<db, now, reqs, ver, coll, shown>>
  /\ UNCHANGED rest

Reserve(u, notes) ==
  LET r == reserveResult(db, u, now) IN
  /\ authorize(u, {"volunteer", "charity"})
  /\ db' = IF r.code = 200
             THEN save(db, db, reserve(db, u, UserType(u), notes, now)) ELSE db
  /\ last' = Answer("reserve", u, r)
  /\ pre' = IF r.code = 200 /\ last.op = "create" THEN db ELSE NoDoc
  /\ UNCHANGED <<now, reqs, ver, coll, shown>>
  /\ UNCHANGED rest

CancelReservation(u) ==
  LET r == cancelResult(db, u) IN
  /\ db' = IF r.code = 200 THEN save(db, db, cancelReservation(db, now)) ELSE db
  /\ last' = [Answer("cancel", u, r) EXCEPT !.retry = Retried("cancel", u, NoBody)]
  /\ UNCHANGED <<now, pre, reqs, ver, coll, shown>>
  /\ UNCHANGED rest

Pickup(u) ==
  LET r == pickupResult(db, u) IN
  /\ db' = IF r.code = 200 THEN save(db, db, markPickedUp(db, now)) ELSE db
  /\ last' = [Answer("pickup", u, r) EXCEPT !.retry = Retried("pickup", u, NoBody)]
  /\ pre' = NoDoc
  /\ UNCHANGED <<now, reqs, ver, coll, shown>>
  /\ UNCHANGED rest

Delete(u) ==
  LET r == deleteResult(db, u) IN
  /\ db' = IF r.code = 200 THEN NoDoc ELSE db
  /\ last' = [Answer("delete", u, r) EXCEPT !.retry = Retried("delete", u, NoBody)]
  /\ pre' = NoDoc
  /\ UNCHANGED <<now, reqs, ver, coll, shown>>
  /\ UNCHANGED rest

\* the clock the handlers read with new Date()
Tick ==
  /\ now < MaxTime
  /\ now' = now + 1
  /\ UNCHANGED <<db, last, pre, reqs, ver, coll, shown>>
  /\ UNCHANGED rest

\* request bodies of PUT /:id
UpdateAny(u) ==
  \/ \E s \in StatusInput : Update(u, [status |-> s])
  \/ Update(u, [donor |-> "d2"])
  \/ \E e \in {0, MaxDate} : Update(u, [expiryDate |-> e])
  \/ Update(u, [reservedBy |-> BodyReservation])
  \/ Update(u, [views |-> 0])
  \/ Update(u, [isUrgent |-> FALSE])

NoReq == [op |-> NULL, actor |-> NULL, pc |-> "idle", doc |-> NoDoc,
          readVer |-> 0, wroteVer |-> 0, code |-> 0]

NoAnswer ==
  [op |-> "init", actor |-> NULL, code |-> 200, error |-> "",
   at |-> 0, before |-> NoDoc, body |-> NoBody, retry |-> FALSE]

DocIds == 1..NumDocs

\* a query string without parameters
NoQuery ==
  [category |-> NULL, status |-> NULL, urgent |-> NULL,
   coordinates |-> NoPlace, radius |-> NoRadius,
   page |-> NoPage, limit |-> NoLimit]

NoListing ==
  [route |-> NULL, query |-> NoQuery, code |-> 0, donations |-> {}, total |-> 0,
   totalPages |-> 0, hasNextPage |-> FALSE]

\* the answer to a request about another document than the donation
Reply(op, u, r, doc) == [Answer(op, u, r) EXCEPT !.before = doc]

\* no food listing; id is the number of listings posted so far
NoFood ==
  [exists |-> FALSE, id |-> 0, donor |-> NULL, status |-> NULL, claimedBy |-> NULL]

\* rating.average is kept as the fraction num / den
Frac(n, d) == [num |-> n, den |-> d]

NoRating == [average |-> Frac(0, 1), count |-> 0, reviews |-> <<>>]

NoVolunteer == [exists |-> FALSE, user |-> NULL, role |-> NULL, rating |-> NoRating]

NoResponse == [message |-> NULL, respondedBy |-> NULL, respondedAt |-> NoDate]

NoFollowUp == [scheduled |-> FALSE, date |-> NoDate, notes |-> NULL]

NoContact ==
  [exists |-> FALSE, status |-> NULL, assignedTo |-> NULL,
   response |-> NoResponse, notes |-> <<>>, followUp |-> NoFollowUp]

NoRoute == [method |-> NULL, path |-> <<>>, handler |-> NULL]

\* the other collections, empty
Elsewhere == store = <<>>

Init ==
  /\ db = NoDoc
  /\ now = 0
  /\ last = NoAnswer
  /\ pre = NoDoc
  /\ reqs = <<>>
  /\ ver = 0
  /\ coll = <<>>
  /\ shown = NoListing
  /\ Elsewhere

Next ==
  \/ \E u \in CreateCallers, body \in CreateBodies : Create(u, body)
  \/ Get
  \/ \E u \in Users : UpdateDenied(u)
  \/ \E u \in Users : UpdateAny(u)
  \/ \E u \in Users : ReserveDenied(u)
  \/ \E u \in Users, n \in NotesInput : Reserve(u, n)
  \/ \E u \in Users : CancelReservation(u)
  \/ \E u \in Users : Pickup(u)
  \/ \E u \in Users : Delete(u)
  \/ Tick

Spec == Init /\ [][Next]_vars

----------------------------------------------------------------------------
(* The handlers as they interleave: each awaits its findById, then its write *)

ConcOps == {"get", "reserve", "cancel", "pickup", "delete"}

\* what the handler answers for the document its findById returned
resultOf(op, doc, u, t) ==
  CASE op = "get" -> getResult(doc)
    [] op = "reserve" -> reserveResult(doc, u, t)
    [] op = "cancel" -> cancelResult(doc, u)
    [] op = "pickup" -> pickupResult(doc, u)
    [] OTHER -> deleteResult(doc, u)

\* the document the handler holds in memory when it calls save()
changed(op, doc, u, t) ==
  CASE op = "get" -> incrementViews(doc, t)
    [] op = "reserve" -> reserve(doc, u, UserType(u), NULL, t)
    [] op = "cancel" -> cancelReservation(doc, t)
    [] OTHER -> markPickedUp(doc, t)

\* await Donation.findById(req.params.id) and the checks that follow it;
\* requests are numbered in the order they arrive
Read(i, op, u) ==
  LET r == resultOf(op, db, u, now) IN
  /\ reqs[i].pc = "idle"
  /\ IF i = 1 THEN TRUE ELSE reqs[i - 1].pc # "idle"
  /\ reqs' = [reqs EXCEPT ![i] =
                [op |-> op, actor |-> u,
                 pc |-> IF r.code = 200 THEN "write" ELSE "done",
                 doc |-> db, readVer |-> ver, wroteVer |-> 0, code |-> r.code]]
  /\ UNCHANGED <<db, now, last, pre, ver, coll, shown>>
  /\ UNCHANGED rest

\* await donation.save(): the modified paths go to the stored document; the
\* save of a document that is gone throws and the handler answers 500
Save(i) ==
  LET q == reqs[i] IN
  /\ q.pc = "write"
  /\ q.op # "delete"
  /\ IF db.exists
       THEN /\ db' = save(db, q.doc, changed(q.op, q.doc, q.actor, now))
            /\ ver' = ver + 1
            /\ reqs' = [reqs EXCEPT ![i].pc = "done", ![i].wroteVer = ver + 1]
            /\ last' = Answer(q.op, q.actor, OK)
       ELSE /\ reqs' = [reqs EXCEPT ![i].pc = "done", ![i].code = 500]
            /\ last' = Answer(q.op, q.actor, Res(500, "Failed"))
            /\ UNCHANGED <<db, ver>>
  /\ UNCHANGED <<now, pre, coll, shown>>
  /\ UNCHANGED rest

\* await Donation.findByIdAndDelete(req.params.id)
Remove(i) ==
  LET q == reqs[i] IN
  /\ q.pc = "write"
  /\ q.op = "delete"
  /\ db' = NoDoc
  /\ ver' = ver + 1
  /\ reqs' = [reqs EXCEPT ![i].pc = "done", ![i].wroteVer = ver + 1]
  /\ last' = Answer(q.op, q.actor, OK)
  /\ UNCHANGED <<now, pre, coll, shown>>
  /\ UNCHANGED rest

\* a donation created at time 0 that expires at MaxDate
InitConc ==
  /\ db = newDonation([donor |-> "d1", status |-> "available",
                        reservedBy |-> NoReservation,
                        category |-> "fruits", location |-> 0,
                        expiryDate |-> MaxDate, pickupDate |-> 0], 0)
  /\ now = 0
  /\ last = NoAnswer
  /\ pre = NoDoc
  /\ reqs = [i \in 1..NumReq |-> NoReq]
  /\ ver = 0
  /\ coll = <<>>
  /\ shown = NoListing
  /\ Elsewhere

NextConc ==
  \/ \E i \in 1..NumReq, op \in ConcOps, u \in Users : Read(i, op, u)
  \/ \E i \in 1..NumReq : Save(i)
  \/ \E i \in 1..NumReq : Remove(i)
  \/ Tick

SpecConc == InitConc /\ [][NextConc]_vars

----------------------------------------------------------------------------
(* The list queries: Donation.findNearby, GET / and the map's GET /donations. *)
(* A location is a distance in metres along one road, so the distance of two *)
(* locations is the difference of the two numbers.                           *)

\* 1609.34 metres to the mile, in centimetres
CmPerMile == 160934

\* radius = 25, page = 1, limit = 20 when the query string has none
DefaultRadius == 25
DefaultPage == 1
DefaultLimit == 20

\* .limit(100) of the map
MapLimit == 100

Distance(a, b) == IF a < b THEN b - a ELSE a - b

\* $near with $maxDistance (metres, here centimetres)
near(loc, center, maxCm) == Distance(loc, center) * 100 <= maxCm

radiusOf(q) == IF q.radius = NoRadius THEN DefaultRadius ELSE q.radius

statusOf(q) == IF q.status = NULL THEN "available" ELSE q.status

pageOf(q) == IF q.page = NoPage THEN DefaultPage ELSE q.page

limitOf(q) == IF q.limit = NoLimit THEN DefaultLimit ELSE q.limit

\* findNearby that does not look at the expiry date
findNearby_noExpiry(c, coordinates, maxDistance, filters, t) ==
  {i \in DOMAIN c :
     /\ c[i].exists
     /\ near(c[i].location, coordinates, maxDistance * CmPerMile)
     /\ c[i].status = "available"
     /\ (filters.category # NULL => c[i].category = filters.category)}

\* Donation.findNearby(coordinates, maxDistance, filters): the ids it finds
findNearby(c, coordinates, maxDistance, filters, t) ==
  {i \in DOMAIN c :
     /\ c[i].exists
     /\ near(c[i].location, coordinates, maxDistance * CmPerMile)
     /\ c[i].status = "available"
     /\ c[i].expiryDate > t
     /\ (filters.category # NULL => c[i].category = filters.category)}

\* the query object GET / builds from the query string
listMatches(d, q, t) ==
  /\ d.exists
  /\ (q.category # NULL => d.category = q.category)
  /\ d.status = statusOf(q)
  /\ (q.urgent # NULL => d.isUrgent = (q.urgent = "true"))
  /\ (statusOf(q) = "available" => d.expiryDate > t)

\* .sort({createdAt: -1}).skip(skip).limit(limit); ids grow with createdAt
paged(ids, skip, limit) ==
  {i \in ids :
     LET rank == Cardinality({j \in ids : j > i}) IN
     rank >= skip /\ rank < skip + limit}

\* the donations of GET /
listDonations(c, q, t) ==
  LET skip == (pageOf(q) - 1) * limitOf(q)
      found == IF q.coordinates # NoPlace
                 THEN findNearby(c, q.coordinates, radiusOf(q),
                                 [category |-> q.category], t)
                 ELSE {i \in DOMAIN c : listMatches(c[i], q, t)}
  IN paged(found, skip, limitOf(q))

\* the totalItems of GET /
listTotal(c, q, t) ==
  IF q.coordinates # NoPlace
    THEN Cardinality({i \in DOMAIN c :
                        /\ listMatches(c[i], q, t)
                        /\ near(c[i].location, q.coordinates, radiusOf(q) * CmPerMile)})
    ELSE Cardinality({i \in DOMAIN c : listMatches(c[i], q, t)})

\* query('status').isIn([...]) of the map
MapStatus == {"available", "reserved", "picked-up"}

\* the donations of the map's GET /donations: the nearest MapLimit matches
mapDonations(c, q, t) ==
  LET found == {i \in DOMAIN c :
                  /\ c[i].exists
                  /\ c[i].status = statusOf(q)
                  /\ c[i].expiryDate > t
                  /\ (q.category # NULL => c[i].category = q.category)
                  /\ (q.urgent # NULL => c[i].isUrgent = (q.urgent = "true"))
                  /\ near(c[i].location, q.coordinates, radiusOf(q) * CmPerMile)}
      closer(j, i) ==
        \/ Distance(c[j].location, q.coordinates) < Distance(c[i].location, q.coordinates)
        \/ /\ Distance(c[j].location, q.coordinates) = Distance(c[i].location, q.coordinates)
           /\ j < i
  IN {i \in found : Cardinality({j \in found : closer(j, i)}) < MapLimit}

\* query strings GET / accepts
ListQueries ==
  [category : {NULL, "dairy"},
   status : {NULL, "available", "reserved", "expired"},
   urgent : {NULL, "true", "false"},
   coordinates : {NoPlace, 0},
   radius : {NoRadius, 10},
   page : {NoPage, 2},
   limit : {NoLimit, 1}]

\* query strings sent to the map, which requires lat and lng and has no pages
MapQueries ==
  {q \in ListQueries :
     q.coordinates # NoPlace /\ q.page = NoPage /\ q.limit = NoLimit}

\* GET /
List(q) ==
  /\ shown = NoListing
  /\ shown' = LET total == listTotal(coll, q, now)
                  totalPages == Ceil(total, limitOf(q))
              IN [route |-> "list", query |-> q, code |-> 200,
                  donations |-> listDonations(coll, q, now),
                  total |-> total,
                  totalPages |-> totalPages,
                  hasNextPage |-> pageOf(q) < totalPages]
  /\ UNCHANGED <<db, now, last, pre, reqs, ver, coll>>
  /\ UNCHANGED rest

\* the map's GET /donations
Map(q) ==
  /\ shown = NoListing
  /\ shown' = IF q.status # NULL /\ q.status \notin MapStatus
                THEN [NoListing EXCEPT !.route = "map", !.query = q, !.code = 400]
                ELSE [NoListing EXCEPT !.route = "map", !.query = q, !.code = 200,
                                       !.donations = mapDonations(coll, q, now)]
  /\ UNCHANGED <<db, now, last, pre, reqs, ver, coll>>
  /\ UNCHANGED rest

\* donations as the handlers leave them in the collection: near or far,
\* expiring now or later
StoredDocs ==
  {[exists |-> TRUE, donor |-> "d1", status |-> s,
    reservedBy |-> IF s = "reserved" THEN [BodyReservation EXCEPT !.reservedAt = 0]
                   ELSE NoReservation,
    expiryDate |-> e, isUrgent |-> g, views |-> 0,
    category |-> "fruits", location |-> l] :
     s \in {"available", "reserved"}, e \in {MaxTime, MaxDate},
     g \in BOOLEAN, l \in {20000, 50000}}

InitList ==
  /\ db = NoDoc
  /\ now = MaxTime
  /\ last = NoAnswer
  /\ pre = NoDoc
  /\ reqs = <<>>
  /\ ver = 0
  /\ coll \in [DocIds -> StoredDocs]
  /\ shown = NoListing
  /\ Elsewhere

NextList ==
  \/ \E q \in ListQueries : List(q)
  \/ \E q \in MapQueries : Map(q)

SpecList == InitList /\ [][NextList]_vars

----------------------------------------------------------------------------
(* controllers/foodController.js: food listings.  postFood writes at once;  *)
(* claimFood and deleteFood await findById and then their write.            *)

FoodUsers == {"d1", "d2", "r1", "r2"}

\* req.body of POST /api/food: with the required fields or without a name
FoodBodies == {[name |-> "soup"], [name |-> NULL]}

\* the donation side with nothing stored and nothing in flight
NoDonations ==
  /\ db = NoDoc
  /\ last = NoAnswer
  /\ pre = NoDoc
  /\ coll = <<>>
  /\ shown = NoListing

postResult(u, body) ==
  IF Role(u) # "donor" THEN Res(403, "Only donors can post food")
  ELSE IF body.name = NULL THEN Res(500, "Food validation failed")
  ELSE Res(201, "")

\* claimFood that does not look at the status
claimResult_noStatus(doc, u) ==
  IF Role(u) # "receiver" THEN Res(403, "Only receivers can claim food")
  ELSE IF ~doc.exists THEN Res(404, "Food listing not found")
  ELSE OK

claimResult(doc, u) ==
  IF Role(u) # "receiver" THEN Res(403, "Only receivers can claim food")
  ELSE IF ~doc.exists THEN Res(404, "Food listing not found")
  ELSE IF doc.status = "claimed" THEN Res(400, "Food is already claimed")
  ELSE OK

deleteFoodResult(doc, u) ==
  IF ~doc.exists THEN Res(404, "Food not found")
  ELSE IF doc.donor # u THEN Res(403, "Unauthorized")
  ELSE OK

\* exports.postFood
PostFood(u, body) ==
  LET r == postResult(u, body) IN
  /\ ~food.exists
  /\ food.id < MaxFoods
  /\ food' = IF r.code = 201
               THEN [exists |-> TRUE, id |-> food.id + 1, donor |-> u,
                     status |-> "available", claimedBy |-> NULL]
               ELSE food
  /\ last' = Reply("post", u, r, food)
  /\ UNCHANGED <<db, now, pre, reqs, ver, coll, shown>>

\* await Food.findById(req.params.id) and the checks around it
FoodRead(i, op, u) ==
  LET r == IF op = "claim" THEN claimResult(food, u) ELSE deleteFoodResult(food, u) IN
  /\ reqs[i].pc = "idle"
  /\ IF i = 1 THEN TRUE ELSE reqs[i - 1].pc # "idle"
  /\ reqs' = [reqs EXCEPT ![i] =
                [op |-> op, actor |-> u,
                 pc |-> IF r.code = 200 THEN "write" ELSE "done",
                 doc |-> food, readVer |-> ver, wroteVer |-> 0, code |-> r.code]]
  /\ UNCHANGED <<db, now, last, pre, ver, coll, shown, store>>

\* await food.save() of claimFood: status and claimedBy are $set on the
\* listing the handler read; if it is gone, save throws and the answer is 500
FoodSave(i) ==
  LET q == reqs[i] IN
  /\ q.pc = "write"
  /\ q.op = "claim"
  /\ IF food.exists /\ food.id = q.doc.id
       THEN /\ food' = [food EXCEPT !.status = "claimed", !.claimedBy = q.actor]
            /\ ver' = ver + 1
            /\ reqs' = [reqs EXCEPT ![i].pc = "done", ![i].wroteVer = ver + 1]
       ELSE /\ reqs' = [reqs EXCEPT ![i].pc = "done", ![i].code = 500]
            /\ UNCHANGED <<store, ver>>
  /\ UNCHANGED <<db, now, last, pre, coll, shown>>

\* await Food.findByIdAndDelete(req.params.id) of deleteFood
FoodRemove(i) ==
  LET q == reqs[i] IN
  /\ q.pc = "write"
  /\ q.op = "delete"
  /\ food' = IF food.exists /\ food.id = q.doc.id
               THEN [NoFood EXCEPT !.id = food.id] ELSE food
  /\ ver' = ver + 1
  /\ reqs' = [reqs EXCEPT ![i].pc = "done", ![i].wroteVer = ver + 1]
  /\ UNCHANGED <<db, now, last, pre, coll, shown>>

InitFood ==
  /\ NoDonations
  /\ now = 0
  /\ reqs = [i \in 1..NumReq |-> NoReq]
  /\ ver = 0
  /\ food = NoFood

NextFood ==
  \/ \E u \in FoodUsers, b \in FoodBodies : PostFood(u, b)
  \/ \E i \in 1..NumReq, op \in {"claim", "delete"}, u \in FoodUsers : FoodRead(i, op, u)
  \/ \E i \in 1..NumReq : FoodSave(i)
  \/ \E i \in 1..NumReq : FoodRemove(i)

SpecFood == InitFood /\ [][NextFood]_vars

----------------------------------------------------------------------------
(* routes/volunteers.js: the volunteer profile and its rating *)

VolUsers == {"v1", "v2", "d1"}

VolunteerRoles ==
  {"food-collection", "food-distribution", "coordination", "driving", "sorting", "admin"}

RECURSIVE SumRatings(_)
\* reviews.reduce((sum, review) => sum + review.rating, 0)
SumRatings(reviews) ==
  IF reviews = <<>> THEN 0 ELSE Head(reviews).rating + SumRatings(Tail(reviews))

\* volunteerSchema.methods.updateRating
updateRating(doc, newRating, reviewerId) ==
  LET reviews == Append(doc.rating.reviews, [reviewer |-> reviewerId, rating |-> newRating])
  IN [doc EXCEPT !.rating = [average |-> Frac(SumRatings(reviews), Len(reviews)),
                             count |-> Len(reviews),
                             reviews |-> reviews]]

\* rating objects a request body can carry
BodyRatings ==
  {[average |-> Frac(5, 1), count |-> 1, reviews |-> <<>>],
   [average |-> Frac(5, 1), count |-> 1,
    reviews |-> <<[reviewer |-> "v1", rating |-> 5]>>]}

\* req.body of POST /: rating is absent (NoRating is the default) or supplied
VolBodies == [role : {"driving", "bogus"}, rating : {NoRating} \cup BodyRatings]

\* req.body of PUT /:id
VolPatches ==
  {[role |-> "sorting"], [role |-> "bogus"]} \cup {[rating |-> g] : g \in BodyRatings}

\* POST /
volCreateResult(doc, u, body) ==
  IF body.role \notin VolunteerRoles THEN Res(400, "Validation failed")
  ELSE IF doc.exists /\ doc.user = u THEN Res(400, "Already a volunteer")
  ELSE Res(201, "")

\* PUT /:id
volUpdateResult(doc, u, patch) ==
  IF ~doc.exists THEN Res(404, "Volunteer not found")
  ELSE IF doc.user # u THEN Res(403, "Access denied")
  ELSE IF applyUpdate(doc, patch).role \notin VolunteerRoles
    THEN Res(500, "Failed to update volunteer profile")
  ELSE OK

\* POST /:id/rate
rateResult(doc, u, rating) ==
  IF rating < 1 \/ rating > 5 THEN Res(400, "Validation failed")
  ELSE IF ~doc.exists THEN Res(404, "Volunteer not found")
  ELSE IF doc.user = u THEN Res(400, "Cannot rate yourself")
  ELSE OK

VolCreate(u, body) ==
  LET r == volCreateResult(vol, u, body) IN
  /\ ~vol.exists \/ vol.user = u
  /\ vol' = IF r.code = 201
              THEN [exists |-> TRUE, user |-> u, role |-> body.role, rating |-> body.rating]
              ELSE vol
  /\ last' = Reply("create", u, r, vol)
  /\ UNCHANGED <<db, now, pre, reqs, ver, coll, shown>>

VolUpdate(u, patch) ==
  LET r == volUpdateResult(vol, u, patch) IN
  /\ vol' = IF r.code = 200 THEN applyUpdate(vol, patch) ELSE vol
  /\ last' = Reply("update", u, r, vol)
  /\ UNCHANGED <<db, now, pre, reqs, ver, coll, shown>>

Rate(u, rating) ==
  LET r == rateResult(vol, u, rating) IN
  /\ Len(vol.rating.reviews) < MaxReviews
  /\ vol' = IF r.code = 200 THEN updateRating(vol, rating, u) ELSE vol
  /\ last' = Reply("rate", u, r, vol)
  /\ UNCHANGED <<db, now, pre, reqs, ver, coll, shown>>

InitVol ==
  /\ NoDonations
  /\ now = 0
  /\ reqs = <<>>
  /\ ver = 0
  /\ vol = NoVolunteer

NextVol ==
  \/ \E u \in VolUsers, b \in VolBodies : VolCreate(u, b)
  \/ \E u \in VolUsers, p \in VolPatches : VolUpdate(u, p)
  \/ \E u \in VolUsers, g \in {0, 1, 5} : Rate(u, g)

SpecVol == InitVol /\ [][NextVol]_vars

----------------------------------------------------------------------------
(* users router: PUT /:id and DELETE /:id *)

AccountIds == {"d1", "a1"}

\* ids a request can name: the registered users and one id nobody has
AccountTargets == AccountIds \cup {"x1"}

UserRoles == {"donor", "volunteer", "charity", "admin"}

\* the registered users
Registered ==
  [u \in AccountIds |-> [role |-> Role(u), isActive |-> TRUE, isVerified |-> FALSE,
                         firstName |-> "Al"]]

\* req.user.role: the stored role of the authenticated caller
roleOf(u) == accounts[u].role

\* a body without fields
Empty == [f \in {} |-> NULL]

\* req.body of PUT /:id: top-level fields, and fields under the update
\* operator $set, which express.json parses like any other key
UserBodies ==
  {b \in [top : {Empty, [firstName |-> "Bo"], [role |-> "admin"], [role |-> "bogus"]},
           set : {Empty, [role |-> "admin"]}] :
     DOMAIN b.top \cap DOMAIN b.set = {}}

\* delete req.body.role; delete req.body.isActive; delete req.body.isVerified
stripped(u, body) ==
  IF roleOf(u) = "admin" THEN body
  ELSE [body EXCEPT !.top = [f \in DOMAIN body.top \ {"role", "isActive", "isVerified"}
                               |-> body.top[f]]]

\* User.findByIdAndUpdate(id, req.body): top-level fields are $set, as are the
\* fields of the body's own $set
userUpdated(cur, body) == applyUpdate(applyUpdate(cur, body.top), body.set)

userUpdateResult(u, id, body) ==
  IF "role" \in DOMAIN body.top /\ body.top.role \notin UserRoles
    THEN Res(400, "Validation failed")
  ELSE IF roleOf(u) # "admin" /\ u # id THEN Res(403, "Access denied")
  ELSE IF id \notin DOMAIN accounts THEN Res(404, "User not found")
  ELSE IF userUpdated(accounts[id], stripped(u, body)).role \notin UserRoles
    THEN Res(500, "Failed to update user")
  ELSE OK

userDeleteResult(u, id) ==
  IF roleOf(u) # "admin" THEN Res(403, "Forbidden")
  ELSE IF id \notin DOMAIN accounts THEN Res(404, "User not found")
  ELSE IF id = u THEN Res(400, "Cannot delete yourself")
  ELSE OK

\* what an answer records of the users: the caller's role, the id named, the
\* users before the call
Asked(u, id) == [role |-> roleOf(u), target |-> id, accounts |-> accounts]

UserUpdate(u, id, body) ==
  LET r == userUpdateResult(u, id, body) IN
  /\ accounts' = IF r.code = 200
                   THEN [accounts EXCEPT ![id] = userUpdated(@, stripped(u, body))]
                   ELSE accounts
  /\ last' = Reply("profile", u, r, Asked(u, id))
  /\ UNCHANGED <<db, now, pre, reqs, ver, coll, shown>>

UserDelete(u, id) ==
  LET r == userDeleteResult(u, id) IN
  /\ accounts' = IF r.code = 200 THEN [accounts EXCEPT ![id].isActive = FALSE] ELSE accounts
  /\ last' = Reply("deactivate", u, r, Asked(u, id))
  /\ UNCHANGED <<db, now, pre, reqs, ver, coll, shown>>

InitUsers ==
  /\ NoDonations
  /\ now = 0
  /\ reqs = <<>>
  /\ ver = 0
  /\ accounts = Registered

NextUsers ==
  \/ \E u \in AccountIds, id \in AccountTargets, b \in UserBodies : UserUpdate(u, id, b)
  \/ \E u \in AccountIds, id \in AccountTargets : UserDelete(u, id)

SpecUsers == InitUsers /\ [][NextUsers]_vars

----------------------------------------------------------------------------
(* routes/contact.js and models/Contact.js: a contact message and its handling *)

ContactUsers == {"v1", "v2", "a1"}

ContactCategories ==
  {"general", "donation", "volunteer", "partnership", "support", "feedback", "other"}

ContactStatuses == {"new", "in-progress", "resolved", "closed"}

\* the texts requests carry, and their lengths after trim()
Texts == {"ok", "thank you"}

TextLen(t) == IF t = "ok" THEN 2 ELSE IF t = "thank you" THEN 9 ELSE 0

MinMessage == 5
MaxMessage == 1000
MinNote == 5
MaxNote == 500

\* req.body of POST /: NULL stands for a field the body leaves out
SubmitBodies ==
  [category : {NULL, "bogus"},
   status : {NULL, "resolved", "in-progress", "bogus"},
   assignedTo : {NULL, "v1"},
   response : {NoResponse, [NoResponse EXCEPT !.message = "thank you"]}]

\* Contact.create(contactData): schema defaults fill what the body leaves out
created(body) ==
  [exists |-> TRUE,
   status |-> IF body.status = NULL THEN "new" ELSE body.status,
   assignedTo |-> body.assignedTo,
   response |-> body.response,
   notes |-> <<>>,
   followUp |-> NoFollowUp]

submitResult(body) ==
  IF body.category # NULL /\ body.category \notin ContactCategories
    THEN Res(400, "Validation failed")
  ELSE IF created(body).status \notin ContactStatuses
    THEN Res(500, "Failed to submit message")
  ELSE Res(201, "")

\* req.user.role !== 'admin' && (!contact.assignedTo || contact.assignedTo !== req.user._id)
canHandle_anyAssignee(doc, u) == Role(u) = "admin" \/ doc.assignedTo # NULL

canHandle(doc, u) == Role(u) = "admin" \/ (doc.assignedTo # NULL /\ doc.assignedTo = u)

\* the answers of respond, notes and follow-up: validation, lookup, access
handleResult(doc, u, valid) ==
  IF ~valid THEN Res(400, "Validation failed")
  ELSE IF ~doc.exists THEN Res(404, "Contact not found")
  ELSE IF ~canHandle(doc, u) THEN Res(403, "Access denied")
  ELSE OK

assignResult(doc, u) ==
  IF ~authorize(u, {"admin"}) THEN Res(403, "Forbidden")
  ELSE IF ~doc.exists THEN Res(404, "Contact not found")
  ELSE OK

\* contactSchema.methods
respond(doc, message, userId, t) ==
  [doc EXCEPT !.response = [message |-> message, respondedBy |-> userId, respondedAt |-> t],
              !.status = "resolved"]

assignTo(doc, userId) == [doc EXCEPT !.assignedTo = userId, !.status = "in-progress"]

addNote(doc, content, userId) ==
  [doc EXCEPT !.notes = Append(@, [content |-> content, addedBy |-> userId])]

scheduleFollowUp(doc, date, notes) ==
  [doc EXCEPT !.followUp = [scheduled |-> TRUE, date |-> date, notes |-> notes]]

Submit(body) ==
  LET r == submitResult(body) IN
  /\ ~contact.exists
  /\ contact' = IF r.code = 201 THEN created(body) ELSE contact
  /\ last' = Reply("submit", NULL, r, contact)
  /\ UNCHANGED <<db, now, pre, reqs, ver, coll, shown>>

Assign(u, userId) ==
  LET r == assignResult(contact, u) IN
  /\ contact' = IF r.code = 200 THEN assignTo(contact, userId) ELSE contact
  /\ last' = Reply("assign", u, r, contact)
  /\ UNCHANGED <<db, now, pre, reqs, ver, coll, shown>>

Respond(u, message) ==
  LET valid == TextLen(message) >= MinMessage /\ TextLen(message) <= MaxMessage
      r == handleResult(contact, u, valid) IN
  /\ contact' = IF r.code = 200 THEN respond(contact, message, u, now) ELSE contact
  /\ last' = Reply("respond", u, r, contact)
  /\ UNCHANGED <<db, now, pre, reqs, ver, coll, shown>>

AddNote(u, content) ==
  LET valid == TextLen(content) >= MinNote /\ TextLen(content) <= MaxNote
      r == handleResult(contact, u, valid) IN
  /\ Len(contact.notes) < MaxNotes
  /\ contact' = IF r.code = 200 THEN addNote(contact, content, u) ELSE contact
  /\ last' = Reply("note", u, r, contact)
  /\ UNCHANGED <<db, now, pre, reqs, ver, coll, shown>>

FollowUp(u, date) ==
  LET r == handleResult(contact, u, date # NoDate) IN
  /\ contact' = IF r.code = 200 THEN scheduleFollowUp(contact, date, "") ELSE contact
  /\ last' = Reply("follow-up", u, r, contact)
  /\ UNCHANGED <<db, now, pre, reqs, ver, coll, shown>>

InitContact ==
  /\ NoDonations
  /\ now = 0
  /\ reqs = <<>>
  /\ ver = 0
  /\ contact = NoContact

NextContact ==
  \/ \E b \in SubmitBodies : Submit(b)
  \/ \E u \in ContactUsers, a \in ContactUsers \ {"a1"} : Assign(u, a)
  \/ \E u \in ContactUsers, m \in Texts : Respond(u, m)
  \/ \E u \in ContactUsers, c \in Texts : AddNote(u, c)
  \/ \E u \in ContactUsers, d \in {NoDate, MaxDate} : FollowUp(u, d)

SpecContact == InitContact /\ [][NextContact]_vars

----------------------------------------------------------------------------
(* server.js and the routers: which handler a request reaches *)

Methods == {"GET", "POST", "PUT", "DELETE"}

\* path segments of requests: an id and the words of the documented paths
Segments == {"i1", "urgent", "nearby", "my", "stats", "overview", "claim", "respond"}

\* a segment of a route path that is a parameter
IsParam(seg) == seg = ":id"

Route(method, path, handler) == [method |-> method, path |-> path, handler |-> handler]

\* routes/users, in the order of registration
UserRoutes ==
  <<Route("GET", <<>>, "GET /"),
    Route("GET", <<":id">>, "GET /:id"),
    Route("PUT", <<":id">>, "PUT /:id"),
    Route("DELETE", <<":id">>, "DELETE /:id"),
    Route("GET", <<"nearby">>, "GET /nearby"),
    Route("GET", <<"stats", "overview">>, "GET /stats/overview"),
    Route("GET", <<"search">>, "GET /search")>>

\* routes/food, in the order of registration
FoodRoutes ==
  <<Route("GET", <<>>, "getAvailableFood"),
    Route("POST", <<>>, "postFood"),
    Route("GET", <<":id">>, "getFoodById"),
    Route("DELETE", <<":id">>, "deleteFood"),
    Route("POST", <<"claim", ":id">>, "claimFood"),
    Route("GET", <<"my">>, "getMyFood")>>

\* routes/contact, in the order of registration
ContactRoutes ==
  <<Route("POST", <<>>, "POST /"),
    Route("GET", <<>>, "GET /"),
    Route("GET", <<":id">>, "GET /:id"),
    Route("POST", <<":id", "respond">>, "POST /:id/respond"),
    Route("POST", <<":id", "assign">>, "POST /:id/assign"),
    Route("POST", <<":id", "notes">>, "POST /:id/notes"),
    Route("POST", <<":id", "follow-up">>, "POST /:id/follow-up"),
    Route("GET", <<"urgent">>, "GET /urgent"),
    Route("GET", <<"stats", "overview">>, "GET /stats/overview")>>

\* app.use('/api/<name>', router): the routers of this file that server.js mounts
Mounted == [users |-> UserRoutes, food |-> FoodRoutes, contact |-> ContactRoutes]

\* the first path segment after /api of the requests considered
Mounts == {"users", "food", "contact", "donations"}

\* app.use('*', ...): the 404 handler
NotFound == "Route not found"

\* a route path matches a request path segment by segment; a parameter
\* matches any segment
Matches(pattern, path) ==
  /\ Len(pattern) = Len(path)
  /\ \A k \in 1..Len(pattern) : IsParam(pattern[k]) \/ pattern[k] = path[k]

\* Express runs the first route registered whose method and path match;
\* the handlers answer without calling next()
dispatch(mount, method, sub) ==
  IF mount \notin DOMAIN Mounted THEN NotFound
  ELSE LET tbl == Mounted[mount]
           hits == {k \in 1..Len(tbl) : tbl[k].method = method /\ Matches(tbl[k].path, sub)}
       IN IF hits = {} THEN NotFound
          ELSE tbl[CHOOSE k \in hits : \A j \in hits : k <= j].handler

SubPaths == UNION {[1..n -> Segments] : n \in 0..MaxSegments}

Request(method, mount, sub) ==
  /\ routed' = [method |-> method, path |-> <<mount>> \o sub,
                handler |-> dispatch(mount, method, sub)]
  /\ UNCHANGED <<db, now, last, pre, reqs, ver, coll, shown>>

InitRoute ==
  /\ NoDonations
  /\ now = 0
  /\ reqs = <<>>
  /\ ver = 0
  /\ routed = NoRoute

NextRoute == \E m \in Methods, mount \in Mounts, sub \in SubPaths : Request(m, mount, sub)

SpecRoute == InitRoute /\ [][NextRoute]_vars

----------------------------------------------------------------------------
(* Properties of the handlers run one at a time (Spec) *)

Before == last.before

\* the caller is the actor stored in reservedBy under the caller's kind
Recorded(doc, u) == doc.reservedBy[UserType(u)] = u

ReservedByPresent(doc) == doc.reservedBy # NoReservation

\* C1: in every reachable state of a stored donation, reservedBy is present
\* if and only if status = reserved.
C1_ReservedByIffReserved ==
  db.exists => (ReservedByPresent(db) <=> db.status = "reserved")

\* C3: reserve succeeds only on a donation that is available and whose
\* expiryDate is after now; on any other stored donation it fails and leaves
\* status and reservedBy as they were.
C3_ReserveOnlyAvailableUnexpired ==
  (last.op = "reserve" /\ Before.exists) =>
    /\ last.code = 200 =>
         (Before.status = "available" /\ Before.expiryDate > last.at)
    /\ (Before.status # "available" \/ Before.expiryDate <= last.at) =>
         /\ last.code \in {400, 403}
         /\ db.status = Before.status
         /\ db.reservedBy = Before.reservedBy

\* a reserve refused on an available donation because its expiryDate has passed
C3_Witness ==
  /\ last.op = "reserve"
  /\ last.code = 400
  /\ db.exists
  /\ db.status = "available"
  /\ db.expiryDate <= last.at

\* C4: picked-up is terminal (no reserve, cancelReservation, markPickedUp or
\* update changes the status of a picked-up donation), and cancelReservation
\* only takes a donation from reserved to available.
C4_PickedUpTerminal ==
  /\ (Before.exists /\ Before.status = "picked-up"
        /\ last.op \in {"reserve", "cancel", "pickup", "update"}) =>
       db.status = "picked-up"
  /\ (last.op = "cancel" /\ Before.exists /\ db.status # Before.status) =>
       (Before.status = "reserved" /\ db.status = "available")

\* C5: cancelReservation by an actor who is not the one recorded in reservedBy
\* for the actor's kind answers 403 and leaves the donation as it was.
C5_CancelByOtherForbidden ==
  (last.op = "cancel" /\ Before.exists /\ ~Recorded(Before, last.actor)) =>
    (last.code = 403 /\ db = Before)

\* a volunteer refused the cancellation of another volunteer's reservation
C5_Witness ==
  /\ last.op = "cancel"
  /\ last.code = 403
  /\ db.exists
  /\ db.status = "reserved"
  /\ Role(last.actor) = "volunteer"
  /\ db.reservedBy.volunteer \notin {NULL, last.actor}

\* C6: delete removes nothing when the donation is reserved or picked-up or
\* when the caller is not the owning donor, and nothing else removes a donation.
C6_DeleteGuarded ==
  /\ (last.op = "delete" /\ Before.exists
        /\ (Before.status \in {"reserved", "picked-up"} \/ Before.donor # last.actor)) =>
       (last.code # 200 /\ db = Before)
  /\ (Before.exists /\ ~db.exists) => last.op = "delete"

\* the owning donor refused the deletion of a reserved donation
C6_Witness ==
  /\ last.op = "delete"
  /\ last.code = 400
  /\ db.exists
  /\ db.status = "reserved"
  /\ db.donor = last.actor

\* C7: the status of a stored donation only ever moves available -> reserved
\* (reserve), reserved -> picked-up (markPickedUp) or reserved -> available
\* (cancelReservation).
C7_OneDirectional ==
  (Before.exists /\ db.exists /\ db.status # Before.status) =>
    \/ (Before.status = "available" /\ db.status = "reserved" /\ last.op = "reserve")
    \/ (Before.status = "reserved" /\ db.status = "picked-up" /\ last.op = "pickup")
    \/ (Before.status = "reserved" /\ db.status = "available" /\ last.op = "cancel")

\* C8: markPickedUp succeeds only for the recorded actor on a reserved
\* donation and then sets picked-up; any other actor gets 403, the recorded
\* actor on a donation that is not reserved gets 400 (Invalid status), and a
\* refused call leaves the donation as it was.
C8_PickupGuarded ==
  (last.op = "pickup" /\ Before.exists) =>
    /\ ~Recorded(Before, last.actor) => (last.code = 403 /\ db = Before)
    /\ (Recorded(Before, last.actor) /\ Before.status # "reserved") =>
         (last.code = 400 /\ last.error = "Invalid status" /\ db = Before)
    /\ (Recorded(Before, last.actor) /\ Before.status = "reserved") =>
         (last.code = 200 /\ db.status = "picked-up")
    /\ db.status = "picked-up" =>
         (Before.status = "picked-up"
            \/ (Before.status = "reserved" /\ Recorded(Before, last.actor)))

\* the recorded actor asks for a pickup of a donation already picked up
C8_Witness ==
  /\ last.op = "pickup"
  /\ last.code = 400
  /\ db.exists
  /\ db.status = "picked-up"
  /\ Recorded(db, last.actor)

\* C9 as stated: after reserve and then cancelReservation by the same actor
\* the donation is available, reservedBy is cleared and every other field,
\* isUrgent and views included, has its value from before the reservation.
C9_RoundTripExact ==
  (last.op = "cancel" /\ last.code = 200 /\ pre.exists) =>
    db = [pre EXCEPT !.status = "available", !.reservedBy = NoReservation]

\* C9 amended: as above for every field but isUrgent, which is true afterwards
\* exactly when it was true before or days-until-expiry is at most 1 by then.
C9_RoundTripButUrgent ==
  (last.op = "cancel" /\ last.code = 200 /\ pre.exists) =>
    db = [pre EXCEPT !.status = "available", !.reservedBy = NoReservation,
                     !.isUrgent = @ \/ daysUntilExpiry(pre, last.at) <= 1]

\* a round trip during which the donation came within a day of its expiry
C9_Witness ==
  /\ last.op = "cancel"
  /\ last.code = 200
  /\ pre.exists
  /\ ~pre.isUrgent
  /\ db.isUrgent
  /\ db.status = "available"
  /\ db.reservedBy = NoReservation

----------------------------------------------------------------------------
(* Properties of interleaved handlers (SpecConc) *)

\* neither request read the document after the other had written it
Concurrent(i, j) ==
  /\ reqs[i].readVer < reqs[j].wroteVer
  /\ reqs[j].readVer < reqs[i].wroteVer

ReservedOk(i) ==
  /\ reqs[i].op = "reserve"
  /\ reqs[i].pc = "done"
  /\ reqs[i].code = 200

\* C2: of two concurrent reserve calls by different actors on the same
\* available donation, at most one is recorded as reservedBy.
C2_AtMostOneReserver ==
  \A i, j \in 1..NumReq :
    (i # j /\ ReservedOk(i) /\ ReservedOk(j) /\ reqs[i].actor # reqs[j].actor) =>
      ~Concurrent(i, j)

----------------------------------------------------------------------------
(* Creation, ownership and the urgent flag (Spec) *)

Written(op) ==
  /\ last.op = op
  /\ last.code = IF op = "create" THEN 201 ELSE 200
  /\ db.exists

\* C11: the donor reference never changes after creation: no update, reserve,
\* cancelReservation, markPickedUp or incrementViews leaves the donation with
\* another donor than it had.
C11_DonorImmutable ==
  (last.op \in {"update", "reserve", "cancel", "pickup", "get"}
     /\ Before.exists /\ db.exists)
    => db.donor = Before.donor

\* C12: every donation that create stores has status available and no
\* reservedBy, whatever other fields the request supplies.
C12_CreatedAvailable ==
  Written("create") => (db.status = "available" /\ ~ReservedByPresent(db))

\* C13: create answers 400 and stores nothing whenever pickupDate is before
\* the clock or expiryDate is not after pickupDate.
C13_CreateDatesChecked ==
  (last.op = "create"
     /\ (last.body.pickupDate < last.at
           \/ last.body.expiryDate <= last.body.pickupDate))
    => (last.code = 400 /\ ~db.exists)

\* a create refused for an expiry date before a pickup date that is not past
C13_Witness ==
  /\ last.op = "create"
  /\ last.body.pickupDate >= last.at
  /\ last.body.expiryDate < last.body.pickupDate
  /\ last.code = 400
  /\ ~db.exists

\* C14: create answers 400 and stores nothing whenever an enum field of the
\* body (category, status) is outside its closed set.
C14_CreateEnumsChecked ==
  (last.op = "create"
     /\ (last.body.category \notin CategoryEnum
           \/ last.body.status \notin StatusEnum))
    => (last.code = 400 /\ ~db.exists)

\* C15: a donation is only created by an authenticated user who holds the
\* donor role, and the donor reference stored is that user.
C15_CreatedByDonor ==
  Written("create")
    => (/\ last.actor \in Users
        /\ Role(last.actor) = "donor"
        /\ db.donor = last.actor)

\* C16: after every operation that writes the donation (create, update,
\* reserve, cancelReservation, markPickedUp, incrementViews) isUrgent is true
\* exactly when the days until expiry at that moment are at most 1.
C16_UrgentRecomputed ==
  (\E op \in {"create", "update", "reserve", "cancel", "pickup", "get"} : Written(op))
    => (db.isUrgent <=> daysUntilExpiry(db, last.at) <= 1)

----------------------------------------------------------------------------
(* The view counter under interleaved requests (SpecConc) *)

\* the fetches that were answered with the donation
Fetched ==
  {i \in 1..NumReq : reqs[i].op = "get" /\ reqs[i].pc = "done" /\ reqs[i].code = 200}

\* C19: views is a monotonic counter: over any interleaving of fetches the
\* stored views (0 at the start) never decreases and stands increased by the
\* number of fetches that have completed.
C19_ViewsCountFetches ==
  db.exists => db.views = Cardinality(Fetched)

\* C20: a fetch changes views only: the write of GET /:id leaves every other
\* field of the stored donation as it was, whatever it interleaves with.
C20_FetchChangesViewsOnly ==
  (last.op = "get" /\ last.code = 200)
    => db = [Before EXCEPT !.views = db.views]

\* C20 (amended): the write of GET /:id changes views and may set isUrgent
\* (once the days until expiry are at most 1); it leaves status, reservedBy,
\* donor and every other field of the stored donation as it was, whatever
\* it interleaves with.
C20_FetchKeepsLifecycle ==
  (last.op = "get" /\ last.code = 200)
    => db = [Before EXCEPT
               !.views = db.views,
               !.isUrgent = Before.isUrgent \/ daysUntilExpiry(Before, last.at) <= 1]

\* a fetch that read the donation available and wrote it after a reservation
C20_Witness ==
  /\ last.op = "get"
  /\ last.code = 200
  /\ db.status = "reserved"
  /\ \E i \in 1..NumReq :
       /\ reqs[i].op = "get"
       /\ reqs[i].pc = "done"
       /\ reqs[i].wroteVer = ver
       /\ reqs[i].doc.status = "available"

----------------------------------------------------------------------------
(* The list queries (SpecList) *)

Shown(i) == coll[i]

\* C17: the nearby query is status-filterable: when GET / is asked with
\* coordinates and a status filter (and optionally urgent), every donation
\* returned has the requested status (and the requested urgent flag).
C17_NearbyHonoursStatus ==
  (shown.route = "list" /\ shown.query.coordinates # NoPlace
     /\ shown.query.status # NULL)
    => \A i \in shown.donations :
         /\ Shown(i).status = shown.query.status
         /\ (shown.query.urgent # NULL
               => Shown(i).isUrgent = (shown.query.urgent = "true"))

\* C18: a nearby query (findNearby under GET / with coordinates, and the map)
\* never returns a donation farther from the centre than radius miles, and
\* never one whose expiryDate is not after the clock unless the status
\* filter asks for expired donations.
C18_NearbyWithinRadiusUnexpired ==
  (shown.route # NULL /\ shown.query.coordinates # NoPlace)
    => \A i \in shown.donations :
         /\ Distance(Shown(i).location, shown.query.coordinates) * 100
              <= radiusOf(shown.query) * CmPerMile
         /\ (Shown(i).expiryDate > now \/ shown.query.status = "expired")

\* a nearby query that returned one donation of the collection and left out
\* another that is too far away or has expired
C18_Witness ==
  /\ shown.route = "list"
  /\ shown.query.coordinates # NoPlace
  /\ \E i \in shown.donations, j \in DocIds \ shown.donations :
       /\ Shown(j).status = "available"
       /\ \/ Shown(j).expiryDate <= now
          \/ Distance(Shown(j).location, shown.query.coordinates) * 100
               > radiusOf(shown.query) * CmPerMile

----------------------------------------------------------------------------
(* Retries (Spec) *)

----------------------------------------------------------------------------
(* Delete against reserve (SpecConc) *)

\* C23: a donation that delete removes is never one that a concurrent reserve
\* has successfully reserved: no interleaving of delete (read, checks, remove)
\* with reserve (read, checks, write) removes a donation in status reserved
\* whose reserve call was answered with success.
C23_DeleteNeverRemovesReserved ==
  (last.op = "delete" /\ last.code = 200 /\ ~db.exists)
    => ~(/\ Before.status = "reserved"
         /\ \E i \in 1..NumReq : ReservedOk(i) /\ Recorded(Before, reqs[i].actor))

----------------------------------------------------------------------------
(* Food listings (SpecFood) *)

ClaimedOk(i) ==
  reqs[i].op = "claim" /\ reqs[i].pc = "done" /\ reqs[i].code = 200

\* C24: after any sequence of postFood, claimFood and deleteFood calls a
\* stored listing has status claimed if and only if claimedBy is a user, and
\* a claimFood that finds the listing already claimed is answered 400 and
\* writes nothing, so claimedBy stays as it was.
C24_ClaimedIffClaimedBy ==
  /\ food.exists => (food.status = "claimed" <=> food.claimedBy # NULL)
  /\ \A i \in 1..NumReq :
       (reqs[i].op = "claim" /\ Role(reqs[i].actor) = "receiver"
          /\ reqs[i].doc.exists /\ reqs[i].doc.status = "claimed")
         => (reqs[i].code = 400 /\ reqs[i].pc = "done" /\ reqs[i].wroteVer = 0)

\* a receiver's claim of a listing that another receiver holds, refused
C24_Witness ==
  /\ food.exists
  /\ food.status = "claimed"
  /\ \E i \in 1..NumReq :
       /\ reqs[i].op = "claim"
       /\ reqs[i].code = 400
       /\ reqs[i].doc.claimedBy # reqs[i].actor
       /\ food.claimedBy = reqs[i].doc.claimedBy

\* C25: a food listing is claimed at most once: over every interleaving of
\* claimFood calls by different receivers on the same listing at most one
\* is answered with success.
C25_ClaimedAtMostOnce ==
  \A i, j \in 1..NumReq :
    (ClaimedOk(i) /\ ClaimedOk(j) /\ reqs[i].doc.id = reqs[j].doc.id
       /\ reqs[i].actor # reqs[j].actor)
      => i = j

----------------------------------------------------------------------------
(* Pagination of the donation list (SpecList) *)

Min(a, b) == IF a < b THEN a ELSE b

Max(a, b) == IF a > b THEN a ELSE b

\* C26: in the paginated list totalItems counts exactly the donations that
\* satisfy the filter the page is cut from (so the page holds the donations
\* left after the pages before it, up to limit), totalPages is
\* ceil(totalItems / limit), and hasNextPage is true exactly when
\* page * limit < totalItems.
C26_PaginationConsistent ==
  shown.route = "list" =>
    LET p == pageOf(shown.query)
        l == limitOf(shown.query)
    IN /\ Cardinality(shown.donations) = Min(l, Max(0, shown.total - (p - 1) * l))
       /\ shown.totalPages = Ceil(shown.total, l)
       /\ shown.hasNextPage <=> p * l < shown.total

----------------------------------------------------------------------------
(* The volunteer's rating (SpecVol) *)

\* C27: a volunteer's rating changes only through rate by another user: after
\* any sequence of create, update and rate calls rating.count is the number
\* of stored reviews, rating.average is their mean (0 without reviews), and
\* no review's reviewer is the volunteer's own user.
C27_RatingFromReviews ==
  vol.exists =>
    LET g == vol.rating IN
    /\ g.count = Len(g.reviews)
    /\ g.average.num * Max(1, Len(g.reviews)) = SumRatings(g.reviews) * g.average.den
    /\ \A k \in 1..Len(g.reviews) : g.reviews[k].reviewer # vol.user

----------------------------------------------------------------------------
(* Users (SpecUsers) *)

\* C28: only an admin can change a user's role, isActive or isVerified, and
\* a non-admin never updates another user: after a call by a caller whose
\* stored role is not admin, every user's role, isActive and isVerified are
\* what they were before it, and every user other than the caller is
\* unchanged.
C28_AdminOnlyFields ==
  (last.op \in {"profile", "deactivate"} /\ last.before.role # "admin") =>
    \A id \in AccountIds :
      LET was == last.before.accounts[id] IN
      /\ accounts[id].role = was.role
      /\ accounts[id].isActive = was.isActive
      /\ accounts[id].isVerified = was.isVerified
      /\ id # last.actor => accounts[id] = was

----------------------------------------------------------------------------
(* Contact messages (SpecContact) *)

\* C29: a non-admin can respond to a contact, add a note to it or schedule
\* its follow-up only while the contact is assigned to them: a valid call on
\* an existing contact by a non-admin it is not assigned to is answered 403
\* and leaves the contact (status, response, notes, followUp) as it was; the
\* call of the assignee is answered 200.
C29_OnlyAssigneeHandles ==
  (/\ last.op \in {"respond", "note", "follow-up"}
   /\ Role(last.actor) # "admin"
   /\ last.before.exists
   /\ last.code # 400)
    => IF last.before.assignedTo = last.actor
         THEN last.code = 200
         ELSE last.code = 403 /\ contact = last.before

C29_Witness ==
  /\ last.op = "respond"
  /\ last.actor = "v2"
  /\ last.code = 403
  /\ last.before.assignedTo = "v1"
  /\ contact.status = "in-progress"
  /\ contact.response = NoResponse

\* C30: a contact created by the public submit starts with status new, no
\* assignee and no response, and a resolved contact has response.respondedBy
\* and response.respondedAt set.
C30_ResolvedHasResponder ==
  contact.exists =>
    /\ (last.op = "submit" /\ last.code = 201)
         => (contact.status = "new" /\ contact.assignedTo = NULL
             /\ contact.response = NoResponse)
    /\ contact.status = "resolved"
         => (contact.response.respondedBy # NULL /\ contact.response.respondedAt # NoDate)

----------------------------------------------------------------------------
(* Routing (SpecRoute) *)

\* C22: every documented endpoint reaches its own handler: GET
\* /api/contact/urgent, GET /api/users/nearby and GET /api/food/my are not
\* taken by an earlier '/:id' route, and the /api/donations endpoints do not
\* reach the 404 handler.
C22_DocumentedEndpointsDispatch ==
  routed.method = "GET" =>
    /\ routed.path = <<"contact", "urgent">> => routed.handler = "GET /urgent"
    /\ routed.path = <<"users", "nearby">> => routed.handler = "GET /nearby"
    /\ routed.path = <<"food", "my">> => routed.handler = "getMyFood"
    /\ routed.path \in {<<"donations">>, <<"donations", "i1">>}
         => routed.handler # NotFound

====
